---------------------------- MODULE Spec2Model ----------------------------
(***************************************************************************)
(* crash-clouseau, crashclouseau/pushlog.py: correlation of builds with    *)
(* the pushes of the change-history service, and the classification of the *)
(* changesets of a push.                                                    *)
(*                                                                         *)
(* Text is a sequence of one-character strings, so that the two regular    *)
(* expressions are matched character by character.  A datetime is a record *)
(* [secs, usec]; a formatted timestamp ("%Y-%m-%d %H:%M:%S") is the whole   *)
(* second it prints.  A call's outcome is [kind, val] with kind "value",   *)
(* "None" or "raise".                                                      *)
(***************************************************************************)
EXTENDS Integers, Sequences, FiniteSets, TLC

VARIABLES
    BACKOUT_PAT,  \* module global: the compiled backout pattern
    BUG_PAT,      \* module global: the compiled bug pattern
    payload,      \* the raw json-pushes payload the caller holds
    hg,           \* the pushes the change-history service holds, oldest first
    lookup,       \* the answers the build and revision lookups give
    op,           \* the entry point called last
    args,         \* its arguments
    ret,          \* its outcome
    io,           \* the collaborator calls it made, in order
    hist,         \* per file filter: input and output of the first collect on payload
    again         \* whether the last collect repeated an earlier one

vars == <<BACKOUT_PAT, BUG_PAT, payload, hg, lookup, op, args, ret, io, hist, again>>

---------------------------------------------------------------------------
(* Characters and case folding (re.I).                                     *)

UpperCase == <<"A", "B", "C", "D", "E", "F", "G", "H", "I", "J", "K", "L", "M",
               "N", "O", "P", "Q", "R", "S", "T", "U", "V", "W", "X", "Y", "Z">>

LowerCase == <<"a", "b", "c", "d", "e", "f", "g", "h", "i", "j", "k", "l", "m",
               "n", "o", "p", "q", "r", "s", "t", "u", "v", "w", "x", "y", "z">>

lower(c) ==
    IF \E i \in DOMAIN UpperCase : UpperCase[i] = c
    THEN LowerCase[CHOOSE i \in DOMAIN UpperCase : UpperCase[i] = c]
    ELSE c

upper(c) ==
    IF \E i \in DOMAIN LowerCase : LowerCase[i] = c
    THEN UpperCase[CHOOSE i \in DOMAIN LowerCase : LowerCase[i] = c]
    ELSE c

ToLower(s) == [i \in DOMAIN s |-> lower(s[i])]

ToUpper(s) == [i \in DOMAIN s |-> upper(s[i])]

Digits == <<"0", "1", "2", "3", "4", "5", "6", "7", "8", "9">>

IsDigit(c) == \E i \in DOMAIN Digits : Digits[i] = c

DigitValue(c) == (CHOOSE i \in DOMAIN Digits : Digits[i] = c) - 1

---------------------------------------------------------------------------
(* The regular-expression engine, as far as the two patterns use it.  A    *)
(* pattern element maps a set of positions of the text to the set of       *)
(* positions where a match of the element can end (all the backtracking    *)
(* alternatives at once).  Positions are 1-based; Len(s) + 1 is the end.   *)

\* Compared characters: folded under re.I, as they are otherwise.
Fold(flags, c) == IF "I" \in flags THEN lower(c) ELSE c

\* A literal (given in lower case, as the patterns write it).
Lit(flags, s, P, w) ==
    { p + Len(w) : p \in { q \in P : /\ q + Len(w) - 1 <= Len(s)
                                     /\ \A i \in 1..Len(w) :
                                            Fold(flags, s[q + i - 1]) = Fold(flags, w[i]) } }

\* An alternation of literals.
Alt(flags, s, P, ws) == UNION { Lit(flags, s, P, w) : w \in ws }

\* [C]*: any run of characters of the class C.
Star(s, P, C) ==
    { q \in 1..(Len(s) + 1) : \E p \in P : p <= q /\ \A i \in p..(q - 1) : s[i] \in C }

\* [0-9]+ from position p: the end of the greedy (whole) digit run, or {}.
DigitRunEnd(s, p) ==
    { q \in (p + 1)..(Len(s) + 1) :
        /\ \A i \in p..(q - 1) : IsDigit(s[i])
        /\ (q = Len(s) + 1 \/ ~IsDigit(s[q])) }

\* ^: the start of the text; with re.M also the position after a newline.
AtStart(flags, s, p) == p = 1 \/ ("M" \in flags /\ p > 1 /\ p <= Len(s) + 1 /\ s[p - 1] = "\n")

\* int() of a run of decimal digits.
RECURSIVE int(_)
int(ds) == IF ds = <<>> THEN 0
           ELSE 10 * int(SubSeq(ds, 1, Len(ds) - 1)) + DigitValue(ds[Len(ds)])

---------------------------------------------------------------------------
(* The two module-level patterns.                                          *)

\* re.I | re.DOTALL
BACKOUT_FLAGS_CaseSensitive == {"S"}
BACKOUT_FLAGS == {"I", "S"}

\* re.I
BUG_FLAGS_Multiline == {"I", "M"}
BUG_FLAGS == {"I"}

re_compile(pattern, flags) == [pattern |-> pattern, flags |-> flags]

\* ^(?:(?:back(?:ed|ing|s)?(?:[ _]*out[_]?))|(?:revert(?:ing|s)?)) (?:(?:cset|changeset|revision|rev|of)s?)?
\* The positions where a match starting in P can end.
BackoutEnds(flags, s, P) ==
    LET start    == { p \in P : AtStart(flags, s, p) }
        back     == Lit(flags, s, start, <<"b", "a", "c", "k">>)
        backSfx  == back \cup Alt(flags, s, back, { <<"e", "d">>, <<"i", "n", "g">>, <<"s">> })
        joiner   == Star(s, backSfx, {" ", "_"})
        out      == Lit(flags, s, joiner, <<"o", "u", "t">>)
        outSfx   == out \cup Lit(flags, s, out, <<"_">>)
        revert   == Lit(flags, s, start, <<"r", "e", "v", "e", "r", "t">>)
        revSfx   == revert \cup Alt(flags, s, revert, { <<"i", "n", "g">>, <<"s">> })
        space    == Lit(flags, s, outSfx \cup revSfx, <<" ">>)
        noun     == Alt(flags, s, space, { <<"c", "s", "e", "t">>,
                                           <<"c", "h", "a", "n", "g", "e", "s", "e", "t">>,
                                           <<"r", "e", "v", "i", "s", "i", "o", "n">>,
                                           <<"r", "e", "v">>,
                                           <<"o", "f">> })
        nounSfx  == noun \cup Lit(flags, s, noun, <<"s">>)
    IN  space \cup nounSfx

\* ^bug[ \t]*([0-9]+): the spans <<from, to>> of group 1 of the matches that
\* start in P (to is the position after the last digit).
BugGroups(flags, s, P) ==
    LET start  == { p \in P : AtStart(flags, s, p) }
        bug    == Lit(flags, s, start, <<"b", "u", "g">>)
        blanks == Star(s, bug, {" ", "\t"})
    IN  { <<p, q>> \in blanks \X (1..(Len(s) + 1)) : q \in DigitRunEnd(s, p) }

\* Pattern.match(desc): a match at the very start of desc, or None.
pattern_match(pat, desc) ==
    IF pat.pattern = "BACKOUT" THEN BackoutEnds(pat.flags, desc, {1}) # {}
    ELSE BugGroups(pat.flags, desc, {1}) # {}

\* Pattern.search(desc): group 1 of the leftmost match anywhere in desc, as
\* a sequence holding it, or the empty sequence for None.
pattern_search_group1(pat, desc) ==
    LET groups == BugGroups(pat.flags, desc, 1..(Len(desc) + 1))
    IN  IF groups = {} THEN <<>>
        ELSE LET g == CHOOSE g \in groups : \A h \in groups : g[1] <= h[1]
             IN  << SubSeq(desc, g[1], g[2] - 1) >>

is_backed_out(desc) == pattern_match(BACKOUT_PAT, desc)

get_bug(desc) ==
    LET m == pattern_search_group1(BUG_PAT, desc)
    IN  IF m # <<>> THEN int(m[1]) ELSE -1

---------------------------------------------------------------------------
(* Descriptions: a lead, a core (an announcement or a bug token, in        *)
(* several letter cases) and a continuation.                               *)

\* The four announcements of the claim about is_backed_out, as written.
Announcements ==
    { <<"B", "a", "c", "k", "e", "d", " ", "o", "u", "t">>,
      <<"b", "a", "c", "k", "i", "n", "g", " ", "o", "u", "t", " ", "c", "h", "a", "n", "g", "e", "s", "e", "t">>,
      <<"R", "E", "V", "E", "R", "T", "S">>,
      <<"r", "e", "v", "e", "r", "t", " ", "o", "f", " ", "r", "e", "v", "i", "s", "i", "o", "n">> }

\* The same, the two that end in a word now followed by a space.
SpacedAnnouncements ==
    { <<"B", "a", "c", "k", "e", "d", " ", "o", "u", "t", " ">>,
      <<"b", "a", "c", "k", "i", "n", "g", " ", "o", "u", "t", " ", "c", "h", "a", "n", "g", "e", "s", "e", "t">>,
      <<"R", "E", "V", "E", "R", "T", "S", " ">>,
      <<"r", "e", "v", "e", "r", "t", " ", "o", "f", " ", "r", "e", "v", "i", "s", "i", "o", "n">> }

\* The words an announcement begins with.
AnnouncementHeads == { <<"b", "a", "c", "k">>, <<"r", "e", "v", "e", "r", "t">> }

CaseVariants(s) == { s, ToLower(s), ToUpper(s) }

BugWords == CaseVariants(<<"B", "u", "g">>)

Blanks == { <<>>, <<" ">>, <<"\t", " ">> }

\* Digit runs with the number each denotes; the last is "no digits".
DigitRuns ==
    { [txt |-> <<"5", "5", "5">>, val |-> 555],
      [txt |-> <<"0", "0", "7">>, val |-> 7],
      [txt |-> <<"1", "2">>, val |-> 12],
      [txt |-> <<>>, val |-> -1] }

\* A core with the bug number it leads with (-1: none).
Cores ==
    { [txt |-> v, bug |-> -1] : v \in UNION { CaseVariants(a) : a \in Announcements } }
    \cup { [txt |-> w \o b \o d.txt, bug |-> d.val] : w \in BugWords, b \in Blanks, d \in DigitRuns }

Leads == { <<>>, <<"t", "h", "i", "s", " ">>, <<"x", "\n">>, <<"(">> }

\* No continuation starts with a digit.
Rests ==
    { <<>>, <<" ">>, <<"s">>, <<":", " ", "f", "i", "x">>,
      <<"\n", "c", "h", "a", "n", "g", "e", "s", "e", "t">>,
      <<" ", "c", "h", "a", "n", "g", "e", "s", "e", "t", " ", "a", "b", "1", "2", " ", "(", "b", "u", "g", " ", "5", "5", "5", ")">> }

DescParts == Leads \X Cores \X Rests

Compose(parts) == parts[1] \o parts[2].txt \o parts[3]

Descs == { Compose(parts) : parts \in DescParts }

\* w occurs in s at position p, letter case ignored.
OccursAtCI(s, w, p) ==
    /\ p + Len(w) - 1 <= Len(s)
    /\ \A i \in 1..Len(w) : lower(s[p + i - 1]) = lower(w[i])

StartsWithCI(s, w) == OccursAtCI(s, w, 1)

\* An announcement occurs in s, and only after the start of s.
AnnouncedOnlyLater(s) ==
    /\ \E a \in Announcements : \E p \in 2..Len(s) : OccursAtCI(s, a, p)
    /\ \A h \in AnnouncementHeads : ~StartsWithCI(s, h)

---------------------------------------------------------------------------
(* The outcome of a call: a value, None, or an exception raised.           *)

Value(v) == [kind |-> "value", val |-> v]

None == [kind |-> "None", val |-> <<>>]

Raise(e) == [kind |-> "raise", val |-> e]

---------------------------------------------------------------------------
(* Collaborators of collect.                                               *)

\* The paths utils.is_interesting_file accepts, among those of the model.
InterestingFiles == { "a.cpp", "b.js" }

\* file_filter(f) for the predicates the model passes.
file_filter_call(file_filter, f) ==
    CASE file_filter = "accept_all" -> TRUE
      [] file_filter = "reject_all" -> FALSE
      [] OTHER -> f \in InterestingFiles

\* utils.short_rev: a revision id is [head, tail]; its short form is the head.
short_rev(node) == node.head

\* hgauthors.analyze_author: opaque to this module.
analyze_author(author) == [analyzed |-> author]

\* lmdutils.get_date_from_timestamp: the datetime of a unix timestamp.
get_date_from_timestamp(ts) == [secs |-> ts, usec |-> 0]

---------------------------------------------------------------------------
(* collect.                                                                *)

\* [f for f in chgset["files"] if file_filter(f)]
RECURSIVE filtered_files(_, _)
filtered_files(files, file_filter) ==
    IF files = <<>> THEN <<>>
    ELSE (IF file_filter_call(file_filter, Head(files)) THEN <<Head(files)>> ELSE <<>>)
         \o filtered_files(Tail(files), file_filter)

\* len(chgset["parents"]) > 1
merge_flag(chgset) == Len(chgset.parents) > 1

\* The record appended for one changeset.
chgset_record(pushdate, chgset, file_filter) ==
    [ date      |-> pushdate,
      node      |-> short_rev(chgset.node),
      backedout |-> is_backed_out(chgset.desc),
      files     |-> filtered_files(chgset.files, file_filter),
      merge     |-> merge_flag(chgset),
      bug       |-> get_bug(chgset.desc),
      author    |-> analyze_author(chgset.author) ]

\* A plausible slip: a changeset none of whose files passes is skipped.
RECURSIVE collect_push_SkipsFileless(_, _)
collect_push_SkipsFileless(push, file_filter) ==
    IF push.changesets = <<>> THEN <<>>
    ELSE LET c == Head(push.changesets)
             r == chgset_record(get_date_from_timestamp(push.date), c, file_filter)
         IN  (IF r.files = <<>> THEN <<>> ELSE <<r>>)
             \o collect_push_SkipsFileless([push EXCEPT !.changesets = Tail(@)], file_filter)

\* The inner loop: the records of one push, in changeset order.
collect_push(push, file_filter) ==
    LET pushdate == get_date_from_timestamp(push.date)
    IN  [ j \in 1..Len(push.changesets) |->
            chgset_record(pushdate, push.changesets[j], file_filter) ]

\* The outer loop, over data["pushes"].values() in the mapping's order.
RECURSIVE collect_pushes(_, _)
collect_pushes(pushes, file_filter) ==
    IF pushes = <<>> THEN <<>>
    ELSE collect_push(Head(pushes), file_filter) \o collect_pushes(Tail(pushes), file_filter)

\* collect(data, file_filter): the list, or the KeyError of data["pushes"].
collect(data, file_filter) ==
    IF "pushes" \in DOMAIN data
    THEN Value(collect_pushes(data.pushes, file_filter))
    ELSE Raise("KeyError")

---------------------------------------------------------------------------
(* Payloads: up to MaxChangesets changesets, cut into consecutive pushes.  *)

MaxChangesets == 2

N1 == [head |-> "6a1f", tail |-> "e0c2"]
N2 == [head |-> "b7d3", tail |-> "91aa"]
N3 == [head |-> "0c55", tail |-> "4f7e"]
N0 == [head |-> "ffff", tail |-> "0000"]

Chg1 == [ node |-> N1, author |-> "alice", parents |-> <<N0, N3>>,
          desc |-> <<"B", "u", "g", " ", "5", "5", "5", ":", " ", "f", "i", "x">>,
          files |-> <<"a.cpp", "README", "b.js">> ]

Chg2 == [ node |-> N2, author |-> "bob", parents |-> <<N1>>,
          desc |-> <<"B", "a", "c", "k", "e", "d", " ", "o", "u", "t", " ", "c", "h", "a", "n", "g", "e", "s", "e", "t", " ", "a", "b", "1", "2", " ", "(", "b", "u", "g", " ", "5", "5", "5", ")">>,
          files |-> <<"README">> ]

Chg3 == [ node |-> N3, author |-> "carol", parents |-> <<N0>>,
          desc |-> <<"t", "h", "i", "s", " ", "r", "e", "v", "e", "r", "t", "s", " ", "n", "o", "t", "h", "i", "n", "g", " ", "i", "m", "p", "o", "r", "t", "a", "n", "t">>,
          files |-> <<"b.js", "a.cpp">> ]

Changesets == { Chg1, Chg2, Chg3 }

\* The unix timestamp of the k-th push of a payload.
PushTime(k) == 2 * k

ChangesetSeqs == UNION { [1..n -> Changesets] : n \in 0..MaxChangesets }

\* cs cut after the positions in cuts: push k runs from its start to the
\* position before the next start.
PushesOf(cs, cuts) ==
    LET starts   == {1} \cup { c + 1 : c \in cuts }
        start(k) == CHOOSE b \in starts : Cardinality({ t \in starts : t < b }) = k - 1
        stop(k)  == IF k = Cardinality(starts) THEN Len(cs) ELSE start(k + 1) - 1
    IN  IF cs = <<>> THEN <<>>
        ELSE [ k \in 1..Cardinality(starts) |->
                 [ date |-> PushTime(k), changesets |-> SubSeq(cs, start(k), stop(k)) ] ]

PushLists ==
    { PushesOf(cs, cuts) : <<cs, cuts>> \in
        { <<c, u>> \in ChangesetSeqs \X SUBSET (1..(MaxChangesets - 1)) :
            \A x \in u : x < Len(c) } }

Payloads == { [pushes |-> ps] : ps \in PushLists }

---------------------------------------------------------------------------
(* Datetimes.  A datetime is [secs, usec]; the text strftime prints with   *)
(* "%Y-%m-%d %H:%M:%S" names a whole second and is modelled by that second.*)

\* dt - relativedelta(seconds=1), dt + relativedelta(seconds=1)
minus_second(dt) == [dt EXCEPT !.secs = @ - 1]

plus_second(dt) == [dt EXCEPT !.secs = @ + 1]

\* dt.strftime("%Y-%m-%d %H:%M:%S"): the format has no field for the
\* microseconds, which are dropped.
strftime(dt) == dt.secs

\* a <= b on datetimes.
DateLe(a, b) == a.secs < b.secs \/ (a.secs = b.secs /\ a.usec <= b.usec)

---------------------------------------------------------------------------
(* The change-history service (hg.mozilla.org).                            *)

Channels == { "nightly", "beta" }

\* Mercurial.get_repo_url(channel)
get_repo_url(channel) ==
    IF channel = "nightly" THEN "https://hg.mozilla.org/mozilla-central"
    ELSE "https://hg.mozilla.org/releases/mozilla-" \o channel

\* "{}".format(rev) of a revision id [head, tail].
str(rev) == rev.head \o rev.tail

Tip == [head |-> "tip", tail |-> ""]

\* The position in pushes of the push holding rev (0: unknown); "tip" is in
\* the last push.
PushIndex(pushes, rev) ==
    IF rev = Tip THEN Len(pushes)
    ELSE IF \E i \in DOMAIN pushes : \E j \in DOMAIN pushes[i].changesets :
                pushes[i].changesets[j].node = rev
         THEN CHOOSE i \in DOMAIN pushes : \E j \in DOMAIN pushes[i].changesets :
                pushes[i].changesets[j].node = rev
         ELSE 0

\* pushes[from + 1 .. to]
PushRange(pushes, from, to) == SubSeq(pushes, from + 1, to)

\* json-pushes?startdate=..&enddate=..: the pushes strictly inside the
\* window of whole seconds.
json_pushes_by_date(pushes, startdate, enddate) ==
    LET Inside(push) == startdate < push.date /\ push.date < enddate
    IN  [pushes |-> SelectSeq(pushes, Inside)]

\* json-pushes?fromchange=..&tochange=..: the pushes after the push of
\* fromchange, up to and including the push of tochange; an error document
\* for a revision the repository does not know.
json_pushes_by_revs(pushes, fromchange, tochange) ==
    IF PushIndex(pushes, fromchange) = 0 \/ PushIndex(pushes, tochange) = 0
    THEN [error |-> "unknown revision"]
    ELSE [pushes |-> PushRange(pushes, PushIndex(pushes, fromchange),
                               PushIndex(pushes, tochange))]

\* requests.get(url, params=...) as the io log records it.
HttpGet(url, params) == [call |-> "requests.get", url |-> url, params |-> params]

LookupCall(name) == [call |-> name, url |-> "", params |-> <<>>]

---------------------------------------------------------------------------
(* pushlog.py, the functions after collect.  Each is <<outcome, calls>>:   *)
(* what the function returns or raises, and the collaborator calls it made.*)

\* The params of the date query: the window widened by a second on each
\* side, then formatted.
pushlog_window(startdate, enddate) ==
    [ startdate |-> strftime(minus_second(startdate)),
      enddate   |-> strftime(plus_second(enddate)),
      version   |-> 2,
      full      |-> 1 ]

pushlog(startdate, enddate, channel, file_filter) ==
    LET params == pushlog_window(startdate, enddate)
        url    == get_repo_url(channel) \o "/json-pushes"
        r_json == json_pushes_by_date(hg, params.startdate, params.enddate)
    IN  << collect(r_json, file_filter), << HttpGet(url, params) >> >>

\* A plausible slip: the two revisions exchanged.
revs_params_Exchanged(startrev, endrev) ==
    [fromchange |-> endrev, tochange |-> startrev, version |-> 2, full |-> 1]

\* The params of the revision query.
revs_params(startrev, endrev) ==
    [fromchange |-> startrev, tochange |-> endrev, version |-> 2, full |-> 1]

pushlog_for_revs(startrev, endrev, channel, file_filter) ==
    LET params == revs_params(startrev, endrev)
        url    == get_repo_url(channel) \o "/json-pushes"
        r_json == json_pushes_by_revs(hg, params.fromchange, params.tochange)
    IN  << collect(r_json, file_filter), << HttpGet(url, params) >> >>

\* A plausible slip: the two revisions exchanged.
pushlog_for_revs_url_Exchanged(startrev, endrev, channel) ==
    get_repo_url(channel) \o "/pushloghtml?fromchange=" \o str(endrev)
        \o "&tochange=" \o str(startrev)

pushlog_for_revs_url(startrev, endrev, channel) ==
    get_repo_url(channel) \o "/pushloghtml?fromchange=" \o str(startrev)
        \o "&tochange=" \o str(endrev)

\* data[0]["revision"], data[1]["revision"] of a list of builds: the pair,
\* or the IndexError of a list too short.
two_revisions(builds) ==
    IF Len(builds) >= 2
    THEN Value(<< builds[1].revision, builds[2].revision >>)
    ELSE Raise("IndexError")

pushlog_for_buildid(buildid, channel, product, file_filter) ==
    LET builds == lookup.remote
        calls  == << LookupCall("buildhub.get_two_last") >>
        revs   == two_revisions(builds)
    IN  IF builds # <<>>
        THEN IF revs.kind = "raise" THEN << revs, calls >>
             ELSE LET r == pushlog_for_revs(revs.val[1], revs.val[2], channel, file_filter)
                  IN  << r[1], calls \o r[2] >>
        ELSE << None, calls >>

pushlog_for_buildid_url(buildid, channel, product) ==
    LET first  == lookup.local
        second == Len(first) # 2
        builds == IF second THEN lookup.remote ELSE first
        calls  == << LookupCall("models.Build.get_two_last") >>
                  \o (IF second THEN << LookupCall("buildhub.get_two_last") >> ELSE <<>>)
        revs   == two_revisions(builds)
    IN  IF builds # <<>>
        THEN IF revs.kind = "raise" THEN << revs, calls >>
             ELSE << Value(pushlog_for_revs_url(revs.val[1], revs.val[2], channel)), calls >>
        ELSE << None, calls >>

\* The enclosing builds are <<>> (nothing) or a pair <<lower, upper>>, each
\* of the two a sequence holding the build, the empty sequence for None.
pushlog_for_pushdate_url(pushdate, channel, product) ==
    LET builds == lookup.enclosing
        calls  == << LookupCall("buildhub.get_enclosing_builds") >>
    IN  IF builds # <<>>
        THEN LET startrev == builds[1][1].revision
                 endrev   == IF builds[2] = <<>> THEN Tip ELSE builds[2][1].revision
             IN  << Value(pushlog_for_revs_url(startrev, endrev, channel)), calls >>
        ELSE << None, calls >>

pushlog_for_rev_url(revision, channel, product) ==
    LET info  == lookup.revision
        calls == << LookupCall("Revision.get_revision") >>
    IN  IF "pushdate" \in DOMAIN info /\ info.pushdate # <<>>
        THEN LET pushdate == get_date_from_timestamp(info.pushdate[1])
                 r        == pushlog_for_pushdate_url(pushdate, channel, product)
             IN  << r[1], calls \o r[2] >>
        ELSE << Raise(IF "pushdate" \in DOMAIN info THEN "IndexError" ELSE "KeyError"), calls >>

---------------------------------------------------------------------------
(* State.                                                                  *)

Filters == { "is_interesting_file", "accept_all", "reject_all" }

EmptyPayload == [pushes |-> <<>>]

\* Lookups that know nothing: no builds, no revision.
NoLookup == [local |-> <<>>, remote |-> <<>>, enclosing |-> <<>>, revision |-> <<>>]

\* The module as imported: the two patterns compiled, nothing called yet.
InitModule ==
    /\ BACKOUT_PAT = re_compile("BACKOUT", BACKOUT_FLAGS)
    /\ BUG_PAT = re_compile("BUG", BUG_FLAGS)
    /\ op = "none"
    /\ ret = None
    /\ io = <<>>
    /\ hist = [f \in Filters |-> <<>>]
    /\ again = FALSE

---------------------------------------------------------------------------
(* The classifiers of a description.                                       *)

IsBackedOut(desc) ==
    /\ op' = "is_backed_out"
    /\ args' = [desc |-> desc]
    /\ ret' = Value(is_backed_out(desc))
    /\ io' = <<>>
    /\ UNCHANGED <<BACKOUT_PAT, BUG_PAT, payload, hg, lookup, hist, again>>

GetBug(desc) ==
    /\ op' = "get_bug"
    /\ args' = [desc |-> desc]
    /\ ret' = Value(get_bug(desc))
    /\ io' = <<>>
    /\ UNCHANGED <<BACKOUT_PAT, BUG_PAT, payload, hg, lookup, hist, again>>

\* A description is drawn, and one of the classifiers is applied to it.
InitClassify ==
    /\ InitModule
    /\ payload = EmptyPayload
    /\ hg = <<>>
    /\ lookup = NoLookup
    /\ args \in { [desc |-> d] : d \in Descs }

ClassifyBackout == op = "none" /\ IsBackedOut(args.desc)

ClassifyBug == op = "none" /\ GetBug(args.desc)

NextClassify == ClassifyBackout \/ ClassifyBug

SpecClassify == InitClassify /\ [][NextClassify]_vars

---------------------------------------------------------------------------
(* Claims about the classifiers.                                           *)

C9_BugExtractor ==
    op = "get_bug" =>
        /\ ret.kind = "value"
        /\ \A parts \in DescParts :
              args.desc = Compose(parts) =>
                  ret.val = (IF parts[1] = <<>> THEN parts[2].bug ELSE -1)

\* get_bug has returned 7 for a description leading with "bug", blanks
\* and "007".
C9_Witness ==
    /\ op = "get_bug"
    /\ Len(args.desc) > 6
    /\ SubSeq(args.desc, 1, 3) = <<"B", "U", "G">>
    /\ args.desc[4] = "\t"
    /\ ret.val = 7

---------------------------------------------------------------------------
(* collect as an entry point, on the payload the caller holds.             *)

\* A plausible slip: the files are filtered in place, in the payload.
Collect_FiltersInPlace(file_filter) ==
    /\ op' = "collect"
    /\ args' = [file_filter |-> file_filter]
    /\ ret' = collect(payload, file_filter)
    /\ io' = <<>>
    /\ again' = (hist[file_filter] # <<>>)
    /\ hist' = IF hist[file_filter] # <<>> THEN hist
               ELSE [hist EXCEPT ![file_filter] = << [in |-> payload, out |-> ret'] >>]
    /\ payload' = [ pushes |->
                   [ i \in DOMAIN payload.pushes |->
                       [ payload.pushes[i] EXCEPT !.changesets =
                           [ j \in DOMAIN @ |->
                               [ @[j] EXCEPT !.files = filtered_files(@, file_filter) ] ] ] ] ]
    /\ UNCHANGED <<BACKOUT_PAT, BUG_PAT, hg, lookup>>

\* collect(payload, file_filter).  hist keeps the input and the outcome of the
\* first call with each predicate; again tells a repeated call.
Collect(file_filter) ==
    /\ op' = "collect"
    /\ args' = [file_filter |-> file_filter]
    /\ ret' = collect(payload, file_filter)
    /\ io' = <<>>
    /\ again' = (hist[file_filter] # <<>>)
    /\ hist' = IF hist[file_filter] # <<>> THEN hist
               ELSE [hist EXCEPT ![file_filter] = << [in |-> payload, out |-> ret'] >>]
    /\ UNCHANGED <<BACKOUT_PAT, BUG_PAT, payload, hg, lookup>>

\* A payload and a predicate are drawn, and collect is applied to them.
InitCollect ==
    /\ InitModule
    /\ payload \in Payloads
    /\ hg = <<>>
    /\ lookup = NoLookup
    /\ args \in { [file_filter |-> f] : f \in Filters }

CollectDrawn == op = "none" /\ Collect(args.file_filter)

NextCollect == CollectDrawn

SpecCollect == InitCollect /\ [][NextCollect]_vars

---------------------------------------------------------------------------
(* Claims about collect.                                                   *)

\* The number of changesets in the pushes before push i.
RECURSIVE ChangesetsBefore(_, _)
ChangesetsBefore(pushes, i) ==
    IF i = 1 THEN 0
    ELSE ChangesetsBefore(pushes, i - 1) + Len(pushes[i - 1].changesets)

\* C7: for a well-formed payload collect returns exactly one record per
\* changeset (also when every file of it fails the predicate), in push
\* order and, within a push, in changeset order; a record's date is the
\* date of its push, its files are the changeset's files that pass the
\* predicate in their order, merge tells more than one parent, backedout
\* and bug are is_backed_out and get_bug of the description.
C7_CollectRecords ==
    op = "collect" =>
        /\ ret.kind = "value"
        /\ Len(ret.val) = ChangesetsBefore(payload.pushes, Len(payload.pushes) + 1)
        /\ \A i \in DOMAIN payload.pushes : \A j \in DOMAIN payload.pushes[i].changesets :
              LET c       == payload.pushes[i].changesets[j]
                  r       == ret.val[ChangesetsBefore(payload.pushes, i) + j]
                  Pass(f) == file_filter_call(args.file_filter, f)
              IN  /\ r.date = [secs |-> payload.pushes[i].date, usec |-> 0]
                  /\ r.node = c.node.head
                  /\ r.files = SelectSeq(c.files, Pass)
                  /\ r.merge = (Len(c.parents) >= 2)
                  /\ r.backedout = (c = Chg2)
                  /\ r.bug = (IF c = Chg1 THEN 555 ELSE -1)

\* collect has classified a push holding the merge "Bug 555: fix" and then
\* the backout "Backed out changeset ab12 (bug 555)", whose one file fails
\* the predicate.
C7_Witness ==
    /\ op = "collect"
    /\ args.file_filter = "is_interesting_file"
    /\ Len(payload.pushes) = 1
    /\ payload.pushes[1].changesets = <<Chg1, Chg2>>
    /\ ret.kind = "value"
    /\ Len(ret.val) = 2
    /\ ret.val[1].merge /\ ret.val[1].bug = 555 /\ ~ret.val[1].backedout
    /\ ~ret.val[2].merge /\ ret.val[2].bug = -1 /\ ret.val[2].backedout
    /\ ret.val[2].files = <<>>
    /\ ret.val[2].date = ret.val[1].date

---------------------------------------------------------------------------
(* The entry points after collect, as actions.                             *)

Returns(name, a, r) ==
    /\ op' = name
    /\ args' = a
    /\ ret' = r[1]
    /\ io' = r[2]
    /\ UNCHANGED <<BACKOUT_PAT, BUG_PAT, payload, hg, lookup, hist, again>>

Pushlog(a) ==
    Returns("pushlog", a, pushlog(a.startdate, a.enddate, a.channel, a.file_filter))

PushlogForRevs(a) ==
    Returns("pushlog_for_revs", a,
            pushlog_for_revs(a.startrev, a.endrev, a.channel, a.file_filter))

PushlogForRevsUrl(a) ==
    Returns("pushlog_for_revs_url", a,
            << Value(pushlog_for_revs_url(a.startrev, a.endrev, a.channel)), <<>> >>)

PushlogForBuildid(a) ==
    Returns("pushlog_for_buildid", a,
            pushlog_for_buildid(a.buildid, a.channel, a.product, a.file_filter))

PushlogForBuildidUrl(a) ==
    Returns("pushlog_for_buildid_url", a,
            pushlog_for_buildid_url(a.buildid, a.channel, a.product))

PushlogForPushdateUrl(a) ==
    Returns("pushlog_for_pushdate_url", a,
            pushlog_for_pushdate_url(a.pushdate, a.channel, a.product))

PushlogForRevUrl(a) ==
    Returns("pushlog_for_rev_url", a,
            pushlog_for_rev_url(a.revision, a.channel, a.product))

---------------------------------------------------------------------------
(* Inputs.                                                                 *)

\* The latest whole second of a queried window.
MaxTime == 7

Dates == [secs : 1..MaxTime, usec : {0, 500000}]

\* Histories of the service: some of the changesets of the pool, each once,
\* in any order, cut into consecutive pushes.
Histories ==
    LET distinct == { cs \in UNION { [1..n -> Changesets] : n \in 0..Cardinality(Changesets) } :
                        \A i, j \in DOMAIN cs : cs[i] = cs[j] => i = j }
    IN  { PushesOf(cs, cuts) : <<cs, cuts>> \in
            { <<c, u>> \in distinct \X SUBSET (1..Cardinality(Changesets)) :
                \A x \in u : x < Len(c) } }

\* Revision ids a caller passes: the three of the pool, one the service
\* does not know, and "tip".
Revs == { N1, N2, N3, N0, Tip }

Builds == { [revision |-> n] : n \in { N1, N2, N3 } }

\* What a "two last builds" lookup returns: zero, one or two builds.
BuildLists == UNION { [1..n -> Builds] : n \in 0..2 }

\* What the "enclosing builds" lookup returns: nothing, or a lower build
\* with an upper build or None.
Enclosings ==
    { <<>> } \cup { << <<lo>>, up >> : lo \in Builds, up \in { <<>> } \cup { <<b>> : b \in Builds } }

\* What Revision.get_revision returns: a record with the pushdate (time,
\* timezone offset), or one without.
RevisionInfos == { [pushdate |-> <<4, 0>>], [node |-> ""] }

BuildIds == { "20190101093000" }

Products == { "Firefox" }

\* The windows a caller asks for: startdate <= enddate.
PushlogArgs ==
    { a \in [ fn : {"pushlog"}, startdate : Dates, enddate : Dates, channel : Channels,
              file_filter : {"is_interesting_file"} ] :
        DateLe(a.startdate, a.enddate) }

RevsArgs ==
    [ fn : {"pushlog_for_revs"}, startrev : Revs, endrev : Revs, channel : Channels,
      file_filter : {"is_interesting_file", "reject_all"} ]

BuildidArgs ==
    [ fn : {"pushlog_for_buildid"}, buildid : BuildIds, channel : Channels,
      product : Products, file_filter : {"is_interesting_file"} ]

RevsUrlArgs ==
    [ fn : {"pushlog_for_revs_url"}, startrev : Revs, endrev : Revs, channel : Channels ]

BuildidUrlArgs ==
    [ fn : {"pushlog_for_buildid_url"}, buildid : BuildIds, channel : Channels,
      product : Products ]

PushdateUrlArgs ==
    [ fn : {"pushlog_for_pushdate_url"}, pushdate : { [secs |-> 4, usec |-> 0] },
      channel : Channels, product : Products ]

RevUrlArgs ==
    [ fn : {"pushlog_for_rev_url"}, revision : { N1, N0 }, channel : Channels,
      product : Products ]

---------------------------------------------------------------------------
(* The functions that query the change-history service: a history, the    *)
(* lookups' answers and the arguments are drawn, and the function called.  *)

InitFetch ==
    /\ InitModule
    /\ payload = EmptyPayload
    /\ hg \in Histories
    /\ \/ args \in PushlogArgs /\ lookup = NoLookup
       \/ args \in RevsArgs /\ lookup = NoLookup
       \/ args \in BuildidArgs
          /\ lookup \in { [NoLookup EXCEPT !.remote = b] : b \in BuildLists }

PushlogDrawn == op = "none" /\ args.fn = "pushlog" /\ Pushlog(args)

PushlogForRevsDrawn == op = "none" /\ args.fn = "pushlog_for_revs" /\ PushlogForRevs(args)

PushlogForBuildidDrawn ==
    op = "none" /\ args.fn = "pushlog_for_buildid" /\ PushlogForBuildid(args)

NextFetch == PushlogDrawn \/ PushlogForRevsDrawn \/ PushlogForBuildidDrawn

SpecFetch == InitFetch /\ [][NextFetch]_vars

---------------------------------------------------------------------------
(* The functions that build a push-log URL.                                *)

InitUrl ==
    /\ InitModule
    /\ payload = EmptyPayload
    /\ hg = <<>>
    /\ \/ args \in RevsUrlArgs /\ lookup = NoLookup
       \/ args \in BuildidUrlArgs
          /\ lookup \in { [NoLookup EXCEPT !.local = a, !.remote = b] :
                            a \in BuildLists, b \in BuildLists }
       \/ args \in PushdateUrlArgs
          /\ lookup \in { [NoLookup EXCEPT !.enclosing = e] : e \in Enclosings }
       \/ args \in RevUrlArgs
          /\ lookup \in { [NoLookup EXCEPT !.revision = r, !.enclosing = e] :
                            r \in RevisionInfos, e \in Enclosings }

PushlogForRevsUrlDrawn ==
    op = "none" /\ args.fn = "pushlog_for_revs_url" /\ PushlogForRevsUrl(args)

PushlogForBuildidUrlDrawn ==
    op = "none" /\ args.fn = "pushlog_for_buildid_url" /\ PushlogForBuildidUrl(args)

PushlogForPushdateUrlDrawn ==
    op = "none" /\ args.fn = "pushlog_for_pushdate_url" /\ PushlogForPushdateUrl(args)

PushlogForRevUrlDrawn ==
    op = "none" /\ args.fn = "pushlog_for_rev_url" /\ PushlogForRevUrl(args)

NextUrl ==
    \/ PushlogForRevsUrlDrawn
    \/ PushlogForBuildidUrlDrawn
    \/ PushlogForPushdateUrlDrawn
    \/ PushlogForRevUrlDrawn

SpecUrl == InitUrl /\ [][NextUrl]_vars

---------------------------------------------------------------------------
(* Claims about the functions that query the change-history service.       *)

\* The short revision ids of the records a call returned.
NodesOf(records) == { records[k].node : k \in DOMAIN records }

\* No call of the io log went to the change-history service.
NoHistoryQuery == \A k \in DOMAIN io : io[k].call # "requests.get"

\* C1: pushlog_for_buildid returns None whenever the remote build lookup
\* returns exactly 0 or exactly 1 build: it does not raise, queries no
\* change history and uses no one-sided range.
C1_AsStated ==
    (op = "pushlog_for_buildid" /\ Len(lookup.remote) \in {0, 1}) =>
        /\ ret.kind = "None"
        /\ NoHistoryQuery

\* C5: pushlog returns the changesets of exactly the pushes with
\* startdate <= pushdate <= enddate, the service answering with the pushes
\* strictly inside the window of whole seconds it is sent.
C5_AsStated ==
    op = "pushlog" =>
        /\ ret.kind = "value"
        /\ Len(io) = 1
        /\ \A i \in DOMAIN hg : \A j \in DOMAIN hg[i].changesets :
              LET pushdate == [secs |-> hg[i].date, usec |-> 0]
              IN  (DateLe(args.startdate, pushdate) /\ DateLe(pushdate, args.enddate))
                  <=> hg[i].changesets[j].node.head \in NodesOf(ret.val)

\* The heads of the changesets of pushes[from + 1 .. to], in order.
RECURSIVE HeadsBetween(_, _, _)
HeadsBetween(pushes, from, to) ==
    IF from >= to THEN <<>>
    ELSE HeadsBetween(pushes, from, to - 1)
         \o [ j \in DOMAIN pushes[to].changesets |-> pushes[to].changesets[j].node.head ]

\* C6: pushlog_for_revs sends startrev and endrev unchanged as fromchange
\* and tochange of a single query; when the push of startrev precedes the
\* push of endrev, the result is one record per changeset of the pushes
\* after startrev's up to endrev's, so it holds no record for startrev and
\* does hold the record for endrev.
C6_RevisionWindow ==
    op = "pushlog_for_revs" =>
        /\ Len(io) = 1
        /\ io[1].call = "requests.get"
        /\ io[1].params.fromchange = args.startrev
        /\ io[1].params.tochange = args.endrev
        /\ LET from == PushIndex(hg, args.startrev)
               to   == PushIndex(hg, args.endrev)
           IN  (0 < from /\ from < to) =>
                   /\ ret.kind = "value"
                   /\ [ k \in DOMAIN ret.val |-> ret.val[k].node ] = HeadsBetween(hg, from, to)
                   /\ args.startrev.head \notin NodesOf(ret.val)
                   /\ args.endrev # Tip => args.endrev.head \in NodesOf(ret.val)

\* pushlog_for_revs has answered a window from the first push of a history
\* of three pushes to the revision of its last push.
C6_Witness ==
    /\ op = "pushlog_for_revs"
    /\ Len(hg) = 3
    /\ PushIndex(hg, args.startrev) = 1
    /\ args.endrev # Tip
    /\ PushIndex(hg, args.endrev) = 3
    /\ ret.kind = "value"
    /\ Len(ret.val) = 2
    /\ ret.val[2].node = args.endrev.head

---------------------------------------------------------------------------
(* Claims about the functions that build a push-log URL.                   *)

\* C2: pushlog_for_rev_url returns None and does not raise when the
\* revision lookup yields a record with no pushdate; no lookup of the
\* model fails in transport, so it never raises.
C2_AsStated ==
    op = "pushlog_for_rev_url" =>
        /\ ret.kind # "raise"
        /\ "pushdate" \notin DOMAIN lookup.revision => ret.kind = "None"

\* The builds pushlog_for_buildid_url ends up with.
BuildsUsed == IF Len(lookup.local) < 2 THEN lookup.remote ELSE lookup.local

\* C3: pushlog_for_buildid_url queries the local store first and the
\* remote archive exactly when the local store returned fewer than two
\* builds; with two builds in the source used it returns the URL from the
\* first build's revision to the second's, and None, raising nothing, when
\* both lookups return fewer than two builds.
C3_AsStated ==
    op = "pushlog_for_buildid_url" =>
        /\ io # <<>>
        /\ io[1].call = "models.Build.get_two_last"
        /\ (\E k \in DOMAIN io : io[k].call = "buildhub.get_two_last")
               <=> Len(lookup.local) < 2
        /\ Len(BuildsUsed) = 2 =>
               /\ ret.kind = "value"
               /\ ret.val = get_repo_url(args.channel) \o "/pushloghtml?fromchange="
                             \o BuildsUsed[1].revision.head \o BuildsUsed[1].revision.tail
                             \o "&tochange="
                             \o BuildsUsed[2].revision.head \o BuildsUsed[2].revision.tail
        /\ (Len(lookup.local) < 2 /\ Len(lookup.remote) < 2) => ret.kind = "None"

\* C4: pushlog_for_pushdate_url returns the URL from the lower build's
\* revision to "tip" when the enclosing builds have no upper build, the URL
\* from the lower build's revision to the upper build's when they have
\* both, and None, raising nothing, when the lookup returns nothing.
C4_PushdateUrl ==
    op = "pushlog_for_pushdate_url" =>
        LET e      == lookup.enclosing
            prefix == get_repo_url(args.channel) \o "/pushloghtml?fromchange="
        IN  /\ e = <<>> => ret.kind = "None"
            /\ (e # <<>> /\ e[2] = <<>>) =>
                   /\ ret.kind = "value"
                   /\ ret.val = prefix \o e[1][1].revision.head \o e[1][1].revision.tail
                                 \o "&tochange=tip"
            /\ (e # <<>> /\ e[2] # <<>>) =>
                   /\ ret.kind = "value"
                   /\ ret.val = prefix \o e[1][1].revision.head \o e[1][1].revision.tail
                                 \o "&tochange="
                                 \o e[2][1].revision.head \o e[2][1].revision.tail

\* pushlog_for_pushdate_url has returned the URL from a build to "tip".
C4_Witness ==
    /\ op = "pushlog_for_pushdate_url"
    /\ lookup.enclosing # <<>>
    /\ lookup.enclosing[2] = <<>>
    /\ ret.kind = "value"
    /\ ret.val = "https://hg.mozilla.org/mozilla-central/pushloghtml?fromchange=6a1fe0c2&tochange=tip"

---------------------------------------------------------------------------
(* The module in use: a caller holds a payload and calls the entry points  *)
(* in any order, any number of times, against one history and one set of   *)
(* lookup answers.                                                         *)

HgSample == PushesOf(<<Chg1, Chg2, Chg3>>, {1})

LookupSample ==
    [ local     |-> << [revision |-> N1] >>,
      remote    |-> << [revision |-> N1], [revision |-> N3] >>,
      enclosing |-> << << [revision |-> N2] >>, <<>> >>,
      revision  |-> [pushdate |-> <<4, 0>>] ]

Init ==
    /\ InitModule
    /\ payload \in Payloads
    /\ hg = HgSample
    /\ lookup = LookupSample
    /\ args = <<>>

CallIsBackedOut == IsBackedOut(Chg2.desc)

CallGetBug == GetBug(Chg1.desc)

CallCollect == \E f \in Filters : Collect(f)

CallPushlog ==
    \E a \in PushlogArgs :
        /\ a.startdate = [secs |-> 2, usec |-> 0]
        /\ a.enddate = [secs |-> 4, usec |-> 0]
        /\ a.channel = "nightly"
        /\ Pushlog(a)

CallPushlogForRevs ==
    \E a \in RevsArgs :
        /\ a.startrev = N1
        /\ a.endrev = N3
        /\ a.channel = "nightly"
        /\ a.file_filter = "is_interesting_file"
        /\ PushlogForRevs(a)

CallPushlogForRevsUrl ==
    \E a \in RevsUrlArgs :
        /\ a.startrev = N1
        /\ a.endrev = Tip
        /\ a.channel = "nightly"
        /\ PushlogForRevsUrl(a)

CallPushlogForBuildid == \E a \in BuildidArgs : a.channel = "nightly" /\ PushlogForBuildid(a)

CallPushlogForBuildidUrl ==
    \E a \in BuildidUrlArgs : a.channel = "beta" /\ PushlogForBuildidUrl(a)

CallPushlogForPushdateUrl ==
    \E a \in PushdateUrlArgs : a.channel = "nightly" /\ PushlogForPushdateUrl(a)

CallPushlogForRevUrl ==
    \E a \in RevUrlArgs : a.revision = N1 /\ a.channel = "beta" /\ PushlogForRevUrl(a)

Next ==
    \/ CallIsBackedOut
    \/ CallGetBug
    \/ CallCollect
    \/ CallPushlog
    \/ CallPushlogForRevs
    \/ CallPushlogForRevsUrl
    \/ CallPushlogForBuildid
    \/ CallPushlogForBuildidUrl
    \/ CallPushlogForPushdateUrl
    \/ CallPushlogForRevUrl

Spec == Init /\ [][Next]_vars

\* C10: classification keeps no state.  After any calls of the entry
\* points, collect on the same payload with the same predicate returns what
\* its first call returned, the payload is what it was at that first call,
\* and the two module-level patterns are as compiled at import.
C10_Stateless ==
    /\ BACKOUT_PAT = [pattern |-> "BACKOUT", flags |-> {"I", "S"}]
    /\ BUG_PAT = [pattern |-> "BUG", flags |-> {"I"}]
    /\ \A f \in Filters : hist[f] # <<>> => payload = hist[f][1].in
    /\ (op = "collect" /\ again) => ret = hist[args.file_filter][1].out

\* collect has been called again, with a predicate it was called with
\* before, on a payload of two pushes whose files the predicate splits.
C10_Witness ==
    /\ op = "collect"
    /\ again
    /\ args.file_filter = "is_interesting_file"
    /\ hist["reject_all"] # <<>>
    /\ Len(payload.pushes) = 2
    /\ ret.kind = "value"
    /\ Len(ret.val) = 2
    /\ ret.val[1].files = <<"a.cpp", "b.js">>

=============================================================================
